---- MODULE Spec2Model ----
(***************************************************************************)
(* telegram.ext.CallbackContext (src/telegram/ext/_callbackcontext.py):    *)
(* the per-update context object, its three constructors, its accessors    *)
(* into the Application's bot/chat/user data, refresh_data,                *)
(* drop_callback_data, update and match.                                   *)
(*                                                                         *)
(* Python values are encoded as follows.  None is the empty tuple and an   *)
(* Optional[T] holding t is <<t>> (Some(t)), except where T is itself a    *)
(* non-empty tuple (the (id, data) pairs and the data handles), which are  *)
(* stored as they are.  A dict object is known by its handle               *)
(* <<kind, id, n>>: two reads give "the same dict" iff the handles are     *)
(* equal.  A Python dict keyed by ids or names is a function whose DOMAIN  *)
(* is its key set.                                                         *)
(***************************************************************************)
EXTENDS Integers, Sequences, FiniteSets, TLC

\* Bounds of the model.
MaxId == 1
MaxLen == 2
MaxData == 2
MaxGroup == 1

VARIABLES
    app_bot_data,     \* application.bot_data: the handle of the bot-data mapping
    app_chat_data,    \* application.chat_data: chat id -> handle (a defaultdict)
    app_user_data,    \* application.user_data: user id -> handle (a defaultdict)
    app_persistence,  \* application.persistence: None or Some(store_data flags)
    app_bot,          \* application.bot: its class, its flag, its callback_data_cache
    ctx,              \* the CallbackContext instance, or NoContext
    op,               \* the last call: its name, argument, result, exception, hook calls
    group,            \* the handler group whose callback the dispatcher is running
    attached          \* attribute name -> [value, group] of the last write to it

vars == <<app_bot_data, app_chat_data, app_user_data, app_persistence, app_bot,
          ctx, op, group, attached>>

app_vars == <<app_bot_data, app_chat_data, app_user_data, app_persistence, app_bot>>

None == <<>>

Some(x) == <<x>>

Range(f) == {f[k] : k \in DOMAIN f}

Ids == 0..MaxId

OptIds == {None} \cup {Some(i) : i \in Ids}

\* bool(x) of an Optional[int]: None and 0 are false.
bool_int(x) == x # None /\ x[1] # 0

\* bool(x) of an Optional[tuple] or Optional[object]: None and () are false.
bool_obj(x) == x # None

\* What a handler can be given as `update`: None, an object that is no
\* telegram.Update, or an Update with its effective chat and user (each an
\* Optional object that carries an id).
Updates ==
    {[kind |-> k, effective_chat |-> None, effective_user |-> None] :
        k \in {"None", "object"}}
    \cup {[kind |-> "Update", effective_chat |-> c, effective_user |-> u] :
            c \in OptIds, u \in OptIds}

Jobs == [chat_id : OptIds, user_id : OptIds]

NoContext == [constructed |-> FALSE]

NoOp == [name |-> "none", arg |-> None, ret |-> None, raised |-> "none", calls |-> <<>>]

Call(name, arg) == [NoOp EXCEPT !.name = name, !.arg = arg]

\* The data handles the program still holds a reference to.
LiveHandles ==
    Range(app_chat_data) \cup Range(app_user_data) \cup {app_bot_data}
    \cup (IF ctx = NoContext THEN {}
          ELSE {p[2] : p \in {ctx._chat_id_and_data, ctx._user_id_and_data} \ {None}})

\* A newly created dict object: one that no live reference designates.
FreshHandle(kind, id) ==
    LET used == {h[3] : h \in {l \in LiveHandles : l[1] = kind /\ l[2] = id}}
    IN  <<kind, id, CHOOSE n \in 1..(Cardinality(used) + 1) :
                        n \notin used /\ \A m \in 1..(n - 1) : m \in used>>

\* store[id] of a defaultdict(dict): the entry, created when it is missing.
getitem(store, kind, id) ==
    IF id \in DOMAIN store
    THEN [store |-> store, value |-> store[id]]
    ELSE LET h == FreshHandle(kind, id)
         IN  [store |-> (id :> h) @@ store, value |-> h]

\* CallbackContext.__init__
CallbackContext(application) ==
    [_application |-> application,
     _chat_id_and_data |-> None,
     _user_id_and_data |-> None,
     args |-> None,
     matches |-> None,
     error |-> None,
     job |-> None,
     coroutine |-> None,
     __dict__ |-> <<>>]

\* CallbackContext.bot_data (getter): self.application.bot_data
bot_data(self) == app_bot_data

\* chat_data that looks the chat id up in application.chat_data on every read.
chat_data_refetched(self) ==
    IF bool_obj(self._chat_id_and_data)
    THEN IF self._chat_id_and_data[1] \in DOMAIN app_chat_data
         THEN app_chat_data[self._chat_id_and_data[1]]
         ELSE None
    ELSE None

\* CallbackContext.chat_data (getter)
chat_data(self) ==
    IF bool_obj(self._chat_id_and_data) THEN self._chat_id_and_data[2] ELSE None

\* CallbackContext.user_data (getter)
user_data(self) ==
    IF bool_obj(self._user_id_and_data) THEN self._user_id_and_data[2] ELSE None

\* from_update with the chat and the user tested by the truth value of their
\* ids, as from_job tests a job's ids.
from_update_by_id(upd) ==
    LET self == CallbackContext("application")
        isUpdate == upd.kind # "None" /\ upd.kind = "Update"
        chat == upd.effective_chat
        user == upd.effective_user
        c == IF isUpdate /\ bool_int(chat)
             THEN getitem(app_chat_data, "chat", chat[1])
             ELSE [store |-> app_chat_data, value |-> None]
        u == IF isUpdate /\ bool_int(user)
             THEN getitem(app_user_data, "user", user[1])
             ELSE [store |-> app_user_data, value |-> None]
    IN  [self |-> [self EXCEPT
                     !._chat_id_and_data =
                         IF isUpdate /\ bool_int(chat) THEN <<chat[1], c.value>> ELSE @,
                     !._user_id_and_data =
                         IF isUpdate /\ bool_int(user) THEN <<user[1], u.value>> ELSE @],
         chat_data |-> c.store,
         user_data |-> u.store]

\* CallbackContext.from_update: the new context and the two stores after the
\* lookups.
from_update(upd) ==
    LET self == CallbackContext("application")
        isUpdate == upd.kind # "None" /\ upd.kind = "Update"
        chat == upd.effective_chat
        user == upd.effective_user
        c == IF isUpdate /\ bool_obj(chat)
             THEN getitem(app_chat_data, "chat", chat[1])
             ELSE [store |-> app_chat_data, value |-> None]
        u == IF isUpdate /\ bool_obj(user)
             THEN getitem(app_user_data, "user", user[1])
             ELSE [store |-> app_user_data, value |-> None]
    IN  [self |-> [self EXCEPT
                     !._chat_id_and_data =
                         IF isUpdate /\ bool_obj(chat) THEN <<chat[1], c.value>> ELSE @,
                     !._user_id_and_data =
                         IF isUpdate /\ bool_obj(user) THEN <<user[1], u.value>> ELSE @],
         chat_data |-> c.store,
         user_data |-> u.store]

\* from_error that resolves the chat and the user from the job when there is
\* no update.
from_error_by_job(upd, error, job, coroutine) ==
    LET j == IF job # None THEN job[1] ELSE [chat_id |-> None, user_id |-> None]
        c == IF upd.kind = "None" /\ j.chat_id # None
             THEN getitem(app_chat_data, "chat", j.chat_id[1])
             ELSE [store |-> app_chat_data, value |-> None]
        u == IF upd.kind = "None" /\ j.user_id # None
             THEN getitem(app_user_data, "user", j.user_id[1])
             ELSE [store |-> app_user_data, value |-> None]
        r == IF upd.kind = "None"
             THEN [self |-> [CallbackContext("application") EXCEPT
                               !._chat_id_and_data =
                                   IF j.chat_id # None
                                   THEN <<j.chat_id[1], c.value>> ELSE @,
                               !._user_id_and_data =
                                   IF j.user_id # None
                                   THEN <<j.user_id[1], u.value>> ELSE @],
                   chat_data |-> c.store,
                   user_data |-> u.store]
             ELSE from_update(upd)
    IN  [r EXCEPT !.self = [r.self EXCEPT !.error = error,
                                          !.coroutine = coroutine,
                                          !.job = job]]

\* CallbackContext.from_error
from_error(upd, error, job, coroutine) ==
    LET r == from_update(upd)
    IN  [r EXCEPT !.self = [r.self EXCEPT !.error = error,
                                          !.coroutine = coroutine,
                                          !.job = job]]

\* CallbackContext.from_job
from_job(job) ==
    LET self == [CallbackContext("application") EXCEPT !.job = Some(job)]
        c == IF bool_int(job.chat_id)
             THEN getitem(app_chat_data, "chat", job.chat_id[1])
             ELSE [store |-> app_chat_data, value |-> None]
        u == IF bool_int(job.user_id)
             THEN getitem(app_user_data, "user", job.user_id[1])
             ELSE [store |-> app_user_data, value |-> None]
    IN  [self |-> [self EXCEPT
                     !._chat_id_and_data =
                         IF bool_int(job.chat_id) THEN <<job.chat_id[1], c.value>> ELSE @,
                     !._user_id_and_data =
                         IF bool_int(job.user_id) THEN <<job.user_id[1], u.value>> ELSE @],
         chat_data |-> c.store,
         user_data |-> u.store]

\* The properties of the class that define a setter (which raises).
SetterProperties == {"bot_data", "chat_data", "user_data"}

\* The properties of the class that define no setter.
GetterOnlyProperties == {"application", "bot", "job_queue", "update_queue", "match"}

\* CallbackContext.__slots__ without '__dict__'.
Slots ==
    {"_application", "_chat_id_and_data", "_user_id_and_data",
     "args", "matches", "error", "job", "coroutine"}

Raise(self, exception) == [self |-> self, raised |-> exception]

\* CallbackContext.bot_data (setter)
bot_data_setter(self, value) == Raise(self, "AttributeError")

\* A chat_data setter that stores the value.
chat_data_setter_stores(self, value) ==
    [self |-> [self EXCEPT !._chat_id_and_data = <<0, value>>], raised |-> "none"]

\* CallbackContext.chat_data (setter)
chat_data_setter(self, value) == Raise(self, "AttributeError")

\* CallbackContext.user_data (setter)
user_data_setter(self, value) == Raise(self, "AttributeError")

\* setattr(self, key, value) on an instance of the class: a property of the
\* class wins (its setter runs, or AttributeError when it has none), then a
\* slot, and any other name lands in the instance's __dict__.
setattr(self, key, value) ==
    CASE key = "bot_data" -> bot_data_setter(self, value)
      [] key = "chat_data" -> chat_data_setter(self, value)
      [] key = "user_data" -> user_data_setter(self, value)
      [] key \in GetterOnlyProperties -> Raise(self, "AttributeError")
      [] key \in Slots -> [self |-> [self EXCEPT ![key] = value], raised |-> "none"]
      [] OTHER -> [self |-> [self EXCEPT !.__dict__ = (key :> value) @@ @],
                   raised |-> "none"]

\* update as self.__dict__.update(data): no name reaches a slot or a setter.
update_into_dict(self, data) ==
    [self |-> [self EXCEPT !.__dict__ =
                   [k \in DOMAIN @ \cup {data[i][1] : i \in DOMAIN data} |->
                       IF \E i \in DOMAIN data : data[i][1] = k
                       THEN data[CHOOSE i \in DOMAIN data : data[i][1] = k][2]
                       ELSE @[k]]],
     raised |-> "none"]

\* update that drops the custom attributes before it merges data.
update_after_clear(self, data) ==
    LET RECURSIVE merge(_, _)
        merge(s, d) ==
            IF d = <<>>
            THEN [self |-> s, raised |-> "none"]
            ELSE LET r == setattr(s, d[1][1], d[1][2])
                 IN  IF r.raised # "none" THEN r ELSE merge(r.self, Tail(d))
    IN  merge([self EXCEPT !.__dict__ = <<>>], data)

\* CallbackContext.update: data is the mapping's items, in iteration order.
RECURSIVE update(_, _)
update(self, data) ==
    IF data = <<>>
    THEN [self |-> self, raised |-> "none"]
    ELSE LET r == setattr(self, data[1][1], data[1][2])
         IN  IF r.raised # "none" THEN r ELSE update(r.self, Tail(data))

\* self.matches[0]: the element, or the exception the subscript raises.
matches_0(self) ==
    IF self.matches = None
    THEN [value |-> None, raised |-> "TypeError"]
    ELSE IF Len(self.matches[1]) = 0
         THEN [value |-> None, raised |-> "IndexError"]
         ELSE [value |-> Some(self.matches[1][1]), raised |-> "none"]

\* match that catches IndexError only.
match_index_error_only(self) ==
    LET r == matches_0(self)
    IN  IF r.raised = "IndexError" THEN [value |-> None, raised |-> "none"] ELSE r

\* CallbackContext.match
match(self) ==
    LET r == matches_0(self)
    IN  IF r.raised \in {"IndexError", "TypeError"}
        THEN [value |-> None, raised |-> "none"]
        ELSE r

\* getattr(self, key)
getattr(self, key) ==
    CASE key = "bot_data" -> [value |-> bot_data(self), raised |-> "none"]
      [] key = "chat_data" -> [value |-> chat_data(self), raised |-> "none"]
      [] key = "user_data" -> [value |-> user_data(self), raised |-> "none"]
      [] key = "match" -> match(self)
      [] key \in Slots -> [value |-> self[key], raised |-> "none"]
      [] OTHER -> IF key \in DOMAIN self.__dict__
                  THEN [value |-> self.__dict__[key], raised |-> "none"]
                  ELSE [value |-> None, raised |-> "AttributeError"]

HookCall(hook, args) == [hook |-> hook, args |-> args]

\* refresh_data whose three tests are chained with elif.
refresh_data_elif(self) ==
    IF bool_obj(app_persistence)
    THEN LET store_data == app_persistence[1].store_data
         IN  IF store_data.bot_data
             THEN <<[hook |-> "refresh_bot_data", args |-> <<bot_data(self)>>]>>
             ELSE IF store_data.chat_data /\ self._chat_id_and_data # None
                  THEN <<[hook |-> "refresh_chat_data", args |-> self._chat_id_and_data]>>
                  ELSE IF store_data.user_data /\ self._user_id_and_data # None
                       THEN <<[hook |-> "refresh_user_data",
                               args |-> self._user_id_and_data]>>
                       ELSE <<>>
    ELSE <<>>

\* CallbackContext.refresh_data: the persistence hooks it awaits, in order.
refresh_data(self) ==
    IF bool_obj(app_persistence)
    THEN LET store_data == app_persistence[1].store_data
         IN  (IF store_data.bot_data
              THEN <<HookCall("refresh_bot_data", <<bot_data(self)>>)>>
              ELSE <<>>)
             \o (IF store_data.chat_data /\ self._chat_id_and_data # None
                 THEN <<HookCall("refresh_chat_data", self._chat_id_and_data)>>
                 ELSE <<>>)
             \o (IF store_data.user_data /\ self._user_id_and_data # None
                 THEN <<HookCall("refresh_user_data", self._user_id_and_data)>>
                 ELSE <<>>)
    ELSE <<>>

\* CallbackDataCache.drop_data: KeyError when the query is not in the query
\* index; otherwise the query and its keyboard data (if any) are removed.
drop_data(cache, callback_query) ==
    IF callback_query \notin DOMAIN cache.queries
    THEN [cache |-> cache, raised |-> "KeyError"]
    ELSE [cache |-> [queries |-> [q \in DOMAIN cache.queries \ {callback_query} |->
                                     cache.queries[q]],
                     keyboards |-> cache.keyboards \ {cache.queries[callback_query]}],
          raised |-> "none"]

\* drop_callback_data without the test of arbitrary_callback_data.
drop_callback_data_unchecked(self, callback_query) ==
    IF app_bot.class = "ExtBot"
    THEN drop_data(app_bot.callback_data_cache, callback_query)
    ELSE [cache |-> app_bot.callback_data_cache, raised |-> "RuntimeError"]

\* CallbackContext.drop_callback_data: the bot's cache afterwards and the
\* exception raised.
drop_callback_data(self, callback_query) ==
    IF app_bot.class = "ExtBot"
    THEN IF ~app_bot.arbitrary_callback_data
         THEN [cache |-> app_bot.callback_data_cache, raised |-> "RuntimeError"]
         ELSE drop_data(app_bot.callback_data_cache, callback_query)
    ELSE [cache |-> app_bot.callback_data_cache, raised |-> "RuntimeError"]

(***************************************************************************)
(* The calls, as steps.  Every step records the call in op.                *)
(***************************************************************************)

\* cls.from_update(update, application), called by the dispatcher for a new
\* update.
FromUpdate(upd) ==
    /\ ctx = NoContext
    /\ LET r == from_update(upd)
       IN  /\ ctx' = r.self
           /\ app_chat_data' = r.chat_data
           /\ app_user_data' = r.user_data
    /\ op' = Call("from_update", upd)
    /\ group' = 0
    /\ attached' = <<>>
    /\ UNCHANGED <<app_bot_data, app_persistence, app_bot>>

\* cls.from_error(update, error, application, job, coroutine)
FromError(upd, error, job, coroutine) ==
    /\ ctx = NoContext
    /\ LET r == from_error(upd, error, job, coroutine)
       IN  /\ ctx' = r.self
           /\ app_chat_data' = r.chat_data
           /\ app_user_data' = r.user_data
    /\ op' = Call("from_error", [update |-> upd, error |-> error, job |-> job,
                                 coroutine |-> coroutine])
    /\ group' = 0
    /\ attached' = <<>>
    /\ UNCHANGED <<app_bot_data, app_persistence, app_bot>>

\* cls.from_job(job, application)
FromJob(job) ==
    /\ ctx = NoContext
    /\ LET r == from_job(job)
       IN  /\ ctx' = r.self
           /\ app_chat_data' = r.chat_data
           /\ app_user_data' = r.user_data
    /\ op' = Call("from_job", job)
    /\ group' = 0
    /\ attached' = <<>>
    /\ UNCHANGED <<app_bot_data, app_persistence, app_bot>>

\* The context is dropped once the callbacks of its update, job or error have
\* run.
Discard ==
    /\ ctx # NoContext
    /\ ctx' = NoContext
    /\ op' = Call("discard", None)
    /\ group' = 0
    /\ attached' = <<>>
    /\ UNCHANGED app_vars

\* A read of context.<key>.
GetAttr(key) ==
    /\ ctx # NoContext
    /\ LET r == getattr(ctx, key)
       IN  op' = [Call("getattr", key) EXCEPT !.ret = r.value, !.raised = r.raised]
    /\ UNCHANGED <<app_vars, ctx, group, attached>>

\* An assignment context.<key> = value.
SetAttr(key, value) ==
    /\ ctx # NoContext
    /\ LET r == setattr(ctx, key, value)
       IN  /\ ctx' = r.self
           /\ op' = [Call("setattr", <<key, value>>) EXCEPT !.raised = r.raised]
           /\ attached' = IF r.raised = "none"
                          THEN (key :> [value |-> value, group |-> group]) @@ attached
                          ELSE attached
    /\ UNCHANGED <<app_vars, group>>

\* The keys of data that the loop of update() assigns: those before the first
\* one that names a property of the class.
RECURSIVE Assigned(_)
Assigned(data) ==
    IF data = <<>> \/ data[1][1] \in SetterProperties \cup GetterOnlyProperties
    THEN <<>>
    ELSE <<data[1]>> \o Assigned(Tail(data))

\* context.update(data)
Update(data) ==
    /\ ctx # NoContext
    /\ LET r == update(ctx, data)
           done == Assigned(data)
       IN  /\ ctx' = r.self
           /\ op' = [Call("update", data) EXCEPT !.raised = r.raised]
           /\ attached' =
                [k \in DOMAIN attached \cup {done[i][1] : i \in DOMAIN done} |->
                    IF \E i \in DOMAIN done : done[i][1] = k
                    THEN [value |-> done[CHOOSE i \in DOMAIN done : done[i][1] = k][2],
                          group |-> group]
                    ELSE attached[k]]
    /\ UNCHANGED <<app_vars, group>>

\* await context.refresh_data()
RefreshData ==
    /\ ctx # NoContext
    /\ op' = [Call("refresh_data", None) EXCEPT !.calls = refresh_data(ctx)]
    /\ UNCHANGED <<app_vars, ctx, group, attached>>

\* context.drop_callback_data(callback_query)
DropCallbackData(callback_query) ==
    /\ ctx # NoContext
    /\ LET r == drop_callback_data(ctx, callback_query)
       IN  /\ app_bot' = [app_bot EXCEPT !.callback_data_cache = r.cache]
           /\ op' = [Call("drop_callback_data", callback_query) EXCEPT
                        !.raised = r.raised]
    /\ UNCHANGED <<app_bot_data, app_chat_data, app_user_data, app_persistence,
                   ctx, group, attached>>

\* The dispatcher goes on to the callback of the next handler group, with the
\* same context.
NextGroup ==
    /\ ctx # NoContext
    /\ group < MaxGroup
    /\ group' = group + 1
    /\ op' = Call("next_group", None)
    /\ UNCHANGED <<app_vars, ctx, attached>>

\* application.chat_data[id] = {} : the entry is replaced by a new dict.
ReplaceChatEntry(id) ==
    /\ app_chat_data' = (id :> FreshHandle("chat", id)) @@ app_chat_data
    /\ op' = Call("replace_chat_data", id)
    /\ UNCHANGED <<app_bot_data, app_user_data, app_persistence, app_bot,
                   ctx, group, attached>>

\* del application.chat_data[id]
DeleteChatEntry(id) ==
    /\ id \in DOMAIN app_chat_data
    /\ app_chat_data' = [i \in DOMAIN app_chat_data \ {id} |-> app_chat_data[i]]
    /\ op' = Call("delete_chat_data", id)
    /\ UNCHANGED <<app_bot_data, app_user_data, app_persistence, app_bot,
                   ctx, group, attached>>

\* application.user_data[id] = {}
ReplaceUserEntry(id) ==
    /\ app_user_data' = (id :> FreshHandle("user", id)) @@ app_user_data
    /\ op' = Call("replace_user_data", id)
    /\ UNCHANGED <<app_bot_data, app_chat_data, app_persistence, app_bot,
                   ctx, group, attached>>

\* del application.user_data[id]
DeleteUserEntry(id) ==
    /\ id \in DOMAIN app_user_data
    /\ app_user_data' = [i \in DOMAIN app_user_data \ {id} |-> app_user_data[i]]
    /\ op' = Call("delete_user_data", id)
    /\ UNCHANGED <<app_bot_data, app_chat_data, app_persistence, app_bot,
                   ctx, group, attached>>

\* application.bot_data = {} : the Application's bot-data mapping is replaced.
ReplaceBotData ==
    /\ app_bot_data' = FreshHandle("bot", 0)
    /\ op' = Call("replace_bot_data", None)
    /\ UNCHANGED <<app_chat_data, app_user_data, app_persistence, app_bot,
                   ctx, group, attached>>

(***************************************************************************)
(* Initial states.                                                         *)
(***************************************************************************)

\* The stores an Application can hold when a context is built: every id has
\* no entry yet or the entry made by an earlier lookup.
Stores(kind) ==
    UNION {{[i \in S |-> <<kind, i, 1>>]} : S \in SUBSET Ids}

\* A plain telegram.Bot has no callback_data_cache; an ExtBot has one, used
\* only when arbitrary_callback_data is on.
EmptyCache == [queries |-> <<>>, keyboards |-> {}]

PlainBot ==
    [class |-> "Bot", arbitrary_callback_data |-> FALSE, callback_data_cache |-> EmptyCache]

InitCommon ==
    /\ app_bot_data = <<"bot", 0, 1>>
    /\ ctx = NoContext
    /\ op = NoOp
    /\ group = 0
    /\ attached = <<>>

(***************************************************************************)
(* Spec: the three constructors and the data accessors, from any stores.   *)
(***************************************************************************)

Errors == {Some("error")}

OptCoroutines == {None, Some("coroutine")}

\* The job handed to from_error: none, or one that targets a chat and a user.
ErrorJobs == {None} \cup {Some([chat_id |-> Some(i), user_id |-> Some(i)]) : i \in Ids}

DataKeys == {"bot_data", "chat_data", "user_data"}

Init ==
    /\ InitCommon
    /\ app_chat_data \in Stores("chat")
    /\ app_user_data \in Stores("user")
    /\ app_persistence = None
    /\ app_bot = PlainBot

Next ==
    \/ \E upd \in Updates : FromUpdate(upd)
    \/ \E job \in Jobs : FromJob(job)
    \/ \E upd \in Updates, error \in Errors, job \in ErrorJobs,
          coroutine \in OptCoroutines : FromError(upd, error, job, coroutine)
    \/ \E key \in DataKeys : GetAttr(key)
    \/ Discard

Spec == Init /\ [][Next]_vars

(***************************************************************************)
(* SpecRefresh: a context, refresh_data with every persistence setup, and  *)
(* the Application's stores changing under the context.                    *)
(***************************************************************************)

\* application.persistence: None, or a backend with its store_data flags.
Persistences ==
    {None} \cup
    {Some([store_data |-> f]) :
        f \in [bot_data : BOOLEAN, chat_data : BOOLEAN, user_data : BOOLEAN]}

\* The id whose entry the context captured.
ResolvedChatIds ==
    IF ctx = NoContext \/ ctx._chat_id_and_data = None
    THEN {}
    ELSE {ctx._chat_id_and_data[1]}

ResolvedUserIds ==
    IF ctx = NoContext \/ ctx._user_id_and_data = None
    THEN {}
    ELSE {ctx._user_id_and_data[1]}

InitRefresh ==
    /\ InitCommon
    /\ app_chat_data = <<>>
    /\ app_user_data = <<>>
    /\ app_persistence \in Persistences
    /\ app_bot = PlainBot

\* The stores change at the entries the context captured: the entries of
\* other ids are read by no accessor of the context.
NextRefresh ==
    \/ \E upd \in Updates : FromUpdate(upd)
    \/ \E job \in Jobs : FromJob(job)
    \/ \E key \in DataKeys : GetAttr(key)
    \/ RefreshData
    \/ \E id \in ResolvedChatIds : ReplaceChatEntry(id)
    \/ \E id \in ResolvedChatIds : DeleteChatEntry(id)
    \/ \E id \in ResolvedUserIds : ReplaceUserEntry(id)
    \/ \E id \in ResolvedUserIds : DeleteUserEntry(id)
    \/ ReplaceBotData

SpecRefresh == InitRefresh /\ [][NextRefresh]_vars

(***************************************************************************)
(* SpecFields: one context handed from handler group to handler group,     *)
(* with attribute reads, assignments and update() merges in between.       *)
(***************************************************************************)

\* A dict made by the caller.
NewDict == <<"new", 0, 1>>

Matches == {"m1", "m2"}

\* The lists of at most MaxLen match objects.
MatchLists == UNION {[1..n -> Matches] : n \in 0..MaxLen}

\* The values given to an attribute of each name.
ValuesOf(key) ==
    CASE key = "matches" -> {None, Some(<<>>), Some(<<"m1">>)}
      [] key = "foo" -> {Some("x"), Some("y")}
      [] key = "match" -> {Some("m0")}
      [] key \in DataKeys -> {NewDict}

\* The names update() is given: a slot, a custom attribute, a property.
UpdateKeys == {"matches", "foo", "chat_data"}

Items == UNION {{<<k, v>> : v \in ValuesOf(k)} : k \in UpdateKeys}

\* The mappings of at most MaxData names, as their items in iteration order.
Mappings ==
    {d \in UNION {[1..n -> Items] : n \in 0..MaxData} :
        \A i, j \in DOMAIN d : i # j => d[i][1] # d[j][1]}

AssignKeys == {"foo", "match"} \cup DataKeys

ReadKeys == {"match", "foo"}

\* The updates with or without a chat and a user.
FieldUpdates ==
    {u \in Updates : /\ u.kind = "Update"
                     /\ u.effective_chat \in {None, Some(1)}
                     /\ u.effective_user \in {None, Some(1)}}

InitFields ==
    /\ InitCommon
    /\ app_chat_data = <<>>
    /\ app_user_data = <<>>
    /\ app_persistence = None
    /\ app_bot = PlainBot

NextFields ==
    \/ \E upd \in FieldUpdates : FromUpdate(upd)
    \/ \E key \in AssignKeys : \E value \in ValuesOf(key) : SetAttr(key, value)
    \/ \E data \in Mappings : Update(data)
    \/ \E key \in ReadKeys : GetAttr(key)
    \/ NextGroup

SpecFields == InitFields /\ [][NextFields]_vars

(***************************************************************************)
(* SpecDrop: drop_callback_data with every kind of bot and cache.          *)
(***************************************************************************)

Queries == {"q1", "q2"}

Keyboards == {"k1", "k2"}

\* A CallbackDataCache: the query index (callback query id -> keyboard) and
\* the keyboards whose data is cached.
Caches ==
    {[queries |-> f, keyboards |-> K] :
        f \in UNION {[S -> Keyboards] : S \in SUBSET Queries}, K \in SUBSET Keyboards}

Bots ==
    {PlainBot} \cup
    {[class |-> "ExtBot", arbitrary_callback_data |-> a, callback_data_cache |-> c] :
        a \in BOOLEAN, c \in Caches}

InitDrop ==
    /\ InitCommon
    /\ app_chat_data = <<>>
    /\ app_user_data = <<>>
    /\ app_persistence = None
    /\ app_bot \in Bots

NextDrop ==
    \/ \E upd \in Updates : FromUpdate(upd)
    \/ \E callback_query \in Queries : DropCallbackData(callback_query)
    \/ Discard

SpecDrop == InitDrop /\ [][NextDrop]_vars

(***************************************************************************)
(* SpecMatch: match over every value of matches.                           *)
(***************************************************************************)

MatchesValues == {None} \cup {Some(l) : l \in MatchLists}

NextMatch ==
    \/ \E upd \in Updates : FromUpdate(upd)
    \/ \E value \in MatchesValues : SetAttr("matches", value)
    \/ GetAttr("match")

SpecMatch == InitFields /\ [][NextMatch]_vars

(***************************************************************************)
(* C1: the context built by from_update(update, application) has, for an   *)
(* update with an effective chat of id c, chat_data equal to the handle    *)
(* that application.chat_data[c] yields at construction time (the entry    *)
(* that was there, or the one the lookup created), and has chat_data None  *)
(* when the update has no effective chat, is None or is no Update; the     *)
(* same for user_data, the effective user and application.user_data.       *)
(***************************************************************************)
C1_FromUpdateData ==
    [][op'.name = "from_update" =>
        LET upd == op'.arg
            isUpdate == upd.kind = "Update"
        IN  /\ IF isUpdate /\ upd.effective_chat # None
               THEN LET c == upd.effective_chat[1]
                    IN  /\ c \in DOMAIN app_chat_data'
                        /\ chat_data(ctx') = app_chat_data'[c]
                        /\ c \in DOMAIN app_chat_data =>
                               app_chat_data'[c] = app_chat_data[c]
               ELSE chat_data(ctx') = None
            /\ IF isUpdate /\ upd.effective_user # None
               THEN LET u == upd.effective_user[1]
                    IN  /\ u \in DOMAIN app_user_data'
                        /\ user_data(ctx') = app_user_data'[u]
                        /\ u \in DOMAIN app_user_data =>
                               app_user_data'[u] = app_user_data[u]
               ELSE user_data(ctx') = None]_vars

C1_Witness ==
    /\ op.name = "from_update"
    /\ op.arg.effective_chat = Some(0)
    /\ op.arg.effective_user = None
    /\ chat_data(ctx) = app_chat_data[0]
    /\ user_data(ctx) = None

(***************************************************************************)
(* C6: the context built by from_job(job, application) has job = the job,  *)
(* chat_data populated (with application.chat_data[job.chat_id]) exactly   *)
(* when job.chat_id is not None, and user_data populated exactly when      *)
(* job.user_id is not None, for every value of the ids.                    *)
(***************************************************************************)
C6_FromJobData ==
    op.name = "from_job" =>
        LET job == op.arg
        IN  /\ ctx.job = Some(job)
            /\ chat_data(ctx) # None <=> job.chat_id # None
            /\ user_data(ctx) # None <=> job.user_id # None
            /\ chat_data(ctx) # None => chat_data(ctx) = app_chat_data[job.chat_id[1]]
            /\ user_data(ctx) # None => user_data(ctx) = app_user_data[job.user_id[1]]

(***************************************************************************)
(* C7: the context built by from_error(update, error, application, job,    *)
(* coroutine) has the chat_data and user_data that from_update(update,     *)
(* application) yields from the same stores (and leaves the stores as      *)
(* from_update does), has error, job and coroutine equal to the arguments, *)
(* and has args and matches unset; with update None, chat_data and         *)
(* user_data are None whatever ids the job carries.                        *)
(***************************************************************************)
C7_FromError ==
    [][op'.name = "from_error" =>
        LET a == op'.arg
            r == from_update(a.update)
        IN  /\ chat_data(ctx') = chat_data(r.self)
            /\ user_data(ctx') = user_data(r.self)
            /\ app_chat_data' = r.chat_data
            /\ app_user_data' = r.user_data
            /\ ctx'.error = a.error
            /\ ctx'.job = a.job
            /\ ctx'.coroutine = a.coroutine
            /\ ctx'.args = None
            /\ ctx'.matches = None
            /\ a.update.kind = "None" =>
                   chat_data(ctx') = None /\ user_data(ctx') = None]_vars

C7_Witness ==
    /\ op.name = "from_error"
    /\ op.arg.update.kind = "None"
    /\ op.arg.job = Some([chat_id |-> Some(1), user_id |-> Some(1)])
    /\ ctx.job = op.arg.job
    /\ ctx.error = Some("error")
    /\ chat_data(ctx) = None
    /\ user_data(ctx) = None

(***************************************************************************)
(* C3: one call of refresh_data() raises nothing and awaits exactly these  *)
(* hooks, each at most once: refresh_bot_data(application.bot_data) iff a  *)
(* persistence is attached and stores bot data; refresh_chat_data(chat id, *)
(* chat data) with the captured pair iff a persistence is attached, stores *)
(* chat data and a chat was resolved; refresh_user_data(user id, user      *)
(* data) likewise.  Each hook depends on its own flag and pair only.       *)
(***************************************************************************)
C3_RefreshHooks ==
    op.name = "refresh_data" =>
        LET on == app_persistence # None
            flags == app_persistence[1].store_data
            Calls(hook) == {i \in DOMAIN op.calls : op.calls[i].hook = hook}
            Once(hook, cond, args) ==
                /\ Cardinality(Calls(hook)) = IF cond THEN 1 ELSE 0
                /\ \A i \in Calls(hook) : op.calls[i].args = args
        IN  /\ op.raised = "none"
            /\ \A i \in DOMAIN op.calls :
                   op.calls[i].hook \in
                       {"refresh_bot_data", "refresh_chat_data", "refresh_user_data"}
            /\ Once("refresh_bot_data", on /\ flags.bot_data, <<app_bot_data>>)
            /\ Once("refresh_chat_data",
                    on /\ flags.chat_data /\ ctx._chat_id_and_data # None,
                    ctx._chat_id_and_data)
            /\ Once("refresh_user_data",
                    on /\ flags.user_data /\ ctx._user_id_and_data # None,
                    ctx._user_id_and_data)

C3_Witness ==
    /\ op.name = "refresh_data"
    /\ app_persistence # None
    /\ app_persistence[1].store_data =
           [bot_data |-> FALSE, chat_data |-> TRUE, user_data |-> TRUE]
    /\ ctx._chat_id_and_data = None
    /\ ctx._user_id_and_data # None
    /\ op.calls = <<HookCall("refresh_user_data", ctx._user_id_and_data)>>

(***************************************************************************)
(* C10: once a context is constructed, whatever happens to the             *)
(* Application's stores (an entry of the resolved id replaced or deleted,  *)
(* the bot-data mapping replaced), chat_data and user_data keep returning  *)
(* the captured handle and refresh_data passes the captured (id, handle)   *)
(* pairs to the chat and user hooks, while bot_data returns the            *)
(* Application's bot-data mapping as it is when it is read.                *)
(***************************************************************************)
C10_CapturedData ==
    /\ [][(ctx # NoContext /\ ctx' # NoContext) =>
            /\ chat_data(ctx)' = chat_data(ctx)
            /\ user_data(ctx)' = user_data(ctx)
            /\ ctx'._chat_id_and_data = ctx._chat_id_and_data
            /\ ctx'._user_id_and_data = ctx._user_id_and_data]_vars
    /\ [](op.name = "getattr" =>
            /\ op.arg = "bot_data" => op.ret = app_bot_data
            /\ op.arg = "chat_data" => op.ret = chat_data(ctx)
            /\ op.arg = "user_data" => op.ret = user_data(ctx))
    /\ [](op.name = "refresh_data" =>
            \A i \in DOMAIN op.calls :
                /\ op.calls[i].hook = "refresh_bot_data" =>
                       op.calls[i].args = <<app_bot_data>>
                /\ op.calls[i].hook = "refresh_chat_data" =>
                       op.calls[i].args = ctx._chat_id_and_data
                /\ op.calls[i].hook = "refresh_user_data" =>
                       op.calls[i].args = ctx._user_id_and_data)

C10_Witness ==
    /\ op.name = "getattr"
    /\ op.arg = "chat_data"
    /\ op.ret # None
    /\ ctx._chat_id_and_data[1] \in DOMAIN app_chat_data
    /\ app_chat_data[ctx._chat_id_and_data[1]] # op.ret
    /\ app_bot_data # <<"bot", 0, 1>>

(***************************************************************************)
(* C2: in every state of a context, assigning to bot_data, chat_data or    *)
(* user_data raises AttributeError, and the accessor then returns what it  *)
(* returned before the attempt (no field of the context has changed).      *)
(***************************************************************************)
C2_AssignDataRaises ==
    [][\A key \in DataKeys :
        (op'.name = "setattr" /\ op'.arg[1] = key) =>
            /\ op'.raised = "AttributeError"
            /\ getattr(ctx, key)' = getattr(ctx, key)
            /\ ctx' = ctx]_vars

C2_Witness ==
    /\ op.name = "setattr"
    /\ op.arg[1] = "chat_data"
    /\ op.raised = "AttributeError"
    /\ chat_data(ctx) = <<"chat", 1, 1>>
    /\ user_data(ctx) = None
    /\ "foo" \in DOMAIN ctx.__dict__
    /\ ctx.matches # None

(***************************************************************************)
(* C4: drop_callback_data(callback_query) raises RuntimeError when the bot *)
(* is no ExtBot and when it is an ExtBot whose arbitrary_callback_data is  *)
(* off; in both cases drop_data is not called: the bot's                   *)
(* callback_data_cache is the same after the call as before.               *)
(***************************************************************************)
C4_DropWithoutCapability ==
    [][(/\ op'.name = "drop_callback_data"
        /\ app_bot.class # "ExtBot" \/ ~app_bot.arbitrary_callback_data) =>
        /\ op'.raised = "RuntimeError"
        /\ app_bot'.callback_data_cache = app_bot.callback_data_cache
        /\ app_bot' = app_bot]_vars

C4_Witness ==
    /\ op.name = "drop_callback_data"
    /\ op.raised = "RuntimeError"
    /\ app_bot.class = "ExtBot"
    /\ ~app_bot.arbitrary_callback_data
    /\ op.arg \in DOMAIN app_bot.callback_data_cache.queries
    /\ app_bot.callback_data_cache.queries[op.arg] \in app_bot.callback_data_cache.keyboards

(***************************************************************************)
(* C5: reading match never raises: it returns None when matches is None,   *)
(* None when matches is an empty list, and the first element of matches    *)
(* when matches is a non-empty list; the read changes no field of the      *)
(* context.                                                                *)
(***************************************************************************)
C5_Match ==
    /\ [](op.name = "getattr" /\ op.arg = "match" =>
            /\ op.raised = "none"
            /\ ctx.matches = None => op.ret = None
            /\ ctx.matches = Some(<<>>) => op.ret = None
            /\ (ctx.matches # None /\ ctx.matches # Some(<<>>)) =>
                   op.ret = Some(Head(ctx.matches[1])))
    /\ [][(op'.name = "getattr" /\ op'.arg = "match") => ctx' = ctx]_vars

C5_Witness ==
    /\ op.name = "getattr"
    /\ op.arg = "match"
    /\ ctx.matches = Some(<<"m2", "m1">>)
    /\ op.ret = Some("m2")
    /\ op.raised = "none"

\* Every name of a slot or of a custom attribute of the model.
FieldNames == Slots \cup {"foo"}

\* The names among the keys of data.
KeysOf(data) == {data[i][1] : i \in DOMAIN data}

\* update(data) completed, every name of data reads back as its value and
\* every other field is as it was.  The call leaves the Application as it is,
\* so a read of the context after the call is getattr on ctx'.
UpdateApplied ==
    LET data == op'.arg
    IN  /\ op'.raised = "none"
        /\ UNCHANGED app_vars
        /\ \A i \in DOMAIN data :
               getattr(ctx', data[i][1]) = [value |-> data[i][2], raised |-> "none"]
        /\ \A k \in FieldNames \ KeysOf(data) : getattr(ctx', k) = getattr(ctx, k)
        /\ \A m \in Matches :
               data = << <<"matches", Some(<<m>>)>> >> =>
                   match(ctx') = [value |-> Some(m), raised |-> "none"]

(***************************************************************************)
(* C8 as stated: for every context and every mapping data, update(data)    *)
(* completes, every field named in data then reads back as its mapped      *)
(* value, every other field is unchanged, and update({"matches": [m]})     *)
(* makes match return m.                                                   *)
(***************************************************************************)
C8_UpdateAnyMapping ==
    [][op'.name = "update" => UpdateApplied]_vars

(***************************************************************************)
(* C8, amended: the same for every mapping data none of whose keys names a *)
(* property of the class (bot_data, chat_data, user_data, match,           *)
(* application, bot, job_queue, update_queue).                             *)
(***************************************************************************)
C8_UpdateFields ==
    [][(/\ op'.name = "update"
        /\ KeysOf(op'.arg) \cap (SetterProperties \cup GetterOnlyProperties) = {}) =>
        UpdateApplied]_vars

C8_Witness ==
    /\ op.name = "update"
    /\ op.arg = << <<"foo", Some("y")>>, <<"matches", Some(<<"m1">>)>> >>
    /\ op.raised = "none"
    /\ ctx.__dict__ = [foo |-> Some("y")]
    /\ match(ctx).value = Some("m1")

(***************************************************************************)
(* C9: while the callbacks of one update run group after group on the one  *)
(* context of that update, every attribute written to the context (by a    *)
(* callback of an earlier group or by a merge of the dispatcher) reads     *)
(* back with the value of the last write to its name.                      *)
(***************************************************************************)
C9_AttributesKept ==
    ctx # NoContext =>
        \A k \in DOMAIN attached :
            getattr(ctx, k) = [value |-> attached[k].value, raised |-> "none"]

C9_Witness ==
    /\ op.name = "getattr"
    /\ op.arg = "foo"
    /\ group = MaxGroup
    /\ DOMAIN attached = {"foo", "matches"}
    /\ attached["foo"].group = 0
    /\ attached["matches"].group = MaxGroup
    /\ op.ret = attached["foo"].value

====
